---- MODULE Spec2Model ----
(***************************************************************************)
(* The worker agent of src/src/index.ts: the startup wallet check, the     *)
(* mining loop (bind, gate-check, PoW search, share), the inference loop   *)
(* (gate-check, claim, generate, result) and the fractional-difficulty     *)
(* acceptance test of minePoW.                                             *)
(*                                                                         *)
(* One action is one run of JavaScript between two awaits: the code that   *)
(* runs when a pending call of a loop returns, up to and including the     *)
(* next call that loop issues.  The two loops interleave only at awaits.   *)
(* The coordinator and the inference backend are outside the program:      *)
(* every answer they can give is an input of the action receiving it.      *)
(***************************************************************************)
EXTENDS Integers, Sequences, FiniteSets, TLC

\* ------------------------------------------------------------------ bounds

\* Jobs the coordinator hands out in one run (the code has no such limit).
MaxJobs == 2
\* Hex characters of a digest kept by the model (SHA-256 has 64).
HashLen == 2
\* Nonces a modelled search tries past nonce 0 (the code's loop is unbounded).
MaxNonce == 1
\* Difficulties are the rationals num/den with den in 1..MaxDen.
MaxDen == 4

\* Shares the earlier revision's share loop is followed for once a flag is off.
MaxPast == 3

\* ------------------------------------------------------- program constants

\* Earlier revision: the delays of miningWorker and the span of `diff`.
OldBindRetryDelay == 2000
OldDisabledDelay == 3000
OldUnverifiedDelay == 5000
OldShareDelay == 750
DemoDiffs == 4

\* Values of one hex character: the literal 16 of `16 * (1 - fracDiff)`.
HexBase == 16
\* delay(2000) after a negative bind (mining loop).
BindRetryDelay == 2000
\* delay(5000) after a state query that does not authorize (both loops).
GateRetryDelay == 5000
\* delay(50) after a share attempt.
ShareDelay == 50
\* delay(2000) after a claim that yielded no job.
NoJobDelay == 2000

\* MINING_DIFFICULTY = 5.5, as the rational 11/2.
MINING_DIFFICULTY == [num |-> 11, den |-> 2]

VARIABLES
    WALLET,      \* the wallet credential read at startup ("" when absent)
    exited,      \* "no", or why the process exited: "wallet" or "fatal" (both status 1)
    mPc,         \* mining loop: "boot", or the call it awaits: "hello", "state", "share", "sleep"
    mLog,        \* events of the mining loop's outer iteration, kept until the
                 \* hello call of the next one returns
    aPc,         \* inference loop: "boot", "state", "claim", "generate", "result", "sleep"
    aLog,        \* events of the inference loop's iteration, kept until the
                 \* state query of the next one returns
    job,         \* the job the inference loop holds (NoJob when none)
    claimed,     \* ids of the jobs claim-next-job returned to the loop, in order
    submitted,   \* job ids of the submit-job-result requests issued, in order
    received,    \* the claims (indices of claimed) whose result request reached
                 \* the coordinator
    lastEnabled, \* the agent's latest observed state query ("none" before the first)
    powDiff,     \* minePoW: the difficulty searched at
    powNonce,    \* minePoW: the nonce under test
    powLast,     \* minePoW: the digest of powNonce once tested (<<>> before)
    powTried,    \* minePoW: the nonces tested so far, each with its verdict
    powPc,       \* minePoW: "idle", "search", "rejected" or "done"
    oldPc,         \* earlier revision's miningWorker: the call or delay pending
    oldDiff,       \* earlier revision: `diff` of the share last issued (0: none)
    oldDelay,      \* earlier revision: length of the delay pending (0: none)
    coordEnabled,  \* the coordinator's enabled flag for this host
    coordVerified, \* the coordinator's gpuVerified flag for this host
    pastIssued,    \* shares issued in the burst while a flag was false
    pastAccepted   \* one of those shares was answered with ok true

agentVars == <<WALLET, exited, mPc, mLog, aPc, aLog, job, claimed, submitted,
               received, lastEnabled>>
powVars == <<powDiff, powNonce, powLast, powPc, powTried>>
oldVars == <<oldPc, oldDiff, oldDelay, coordEnabled, coordVerified,
             pastIssued, pastAccepted>>
vars == <<agentVars, powVars, oldVars>>

\* ------------------------------------------------------------- the wire

\* JSON values are modelled as records with a tag t: "null", "garbage" (a
\* body r.json() cannot parse) or "obj"; an optional field that is missing
\* holds "absent".
JsonNull == [t |-> "null"]
Garbage == [t |-> "garbage"]
Tri == {"true", "false", "absent"}
Truthy(v) == v = "true"

\* What one fetch can come to: a transport error, or a status with a body.
Wire(bodies) ==
    {[status |-> "neterr", body |-> Garbage]}
    \cup {[status |-> s, body |-> b] : s \in {"2xx", "non2xx"},
                                       b \in bodies \cup {JsonNull, Garbage}}

\* r.json() throws on a body that is not JSON; fetch throws on a transport error.
Throws(w) == w.status = "neterr" \/ w.body.t = "garbage"

Ev(op, val) == [op |-> op, val |-> val]
Ops(log) == [i \in 1..Len(log) |-> log[i].op]
Last(log) == log[Len(log)]
\* ------------------------------------------------- coordinator client

\* Bodies /host/hello can answer with (HelloResp).
HelloBodies == {[t |-> "obj", ok |-> o, bound |-> b] : o \in Tri, b \in Tri}

\* hello(): the parsed body whatever the status; { ok: false, error } when
\* fetch or r.json() throws.
hello(w) ==
    IF Throws(w) THEN [t |-> "obj", ok |-> "false", bound |-> "absent"]
    ELSE w.body

\* Bodies /host-state can answer with (HostState).
StateBodies == {[t |-> "obj", enabled |-> e, gpuVerified |-> g] :
                    e \in {"true", "false"}, g \in Tri}

\* hostState(): the parsed body whatever the status; null when anything throws.
hostState(w) == IF Throws(w) THEN JsonNull ELSE w.body

\* Bodies /share can answer with (ShareResp).
ShareBodies == {[t |-> "obj", ok |-> o] : o \in Tri}

\* share(diff): a non-2xx status becomes { ok: false, error } (j?.error
\* tolerates a null body); a 2xx body is returned as parsed, null included.
share(diff, w) ==
    IF Throws(w) THEN [t |-> "obj", ok |-> "false"]
    ELSE IF w.status # "2xx" THEN [t |-> "obj", ok |-> "false"]
    ELSE w.body

\* Mutant of NotBound: only an explicit bound=false counts as not bound.
NotBound_OnlyFalse(h) == h.bound = "false"

\* The mining loop's `!h.bound`.
NotBound(h) == ~Truthy(h.bound)

\* Mutant of GatedOff: `|| !s.gpuVerified` is missing.
GatedOff_IgnoresVerified(s) == s.t = "null" \/ ~Truthy(s.enabled)

\* Mutant of GatedOff: `!s?.enabled ||` is missing.
GatedOff_IgnoresEnabled(s) == s.t = "null" \/ ~Truthy(s.gpuVerified)

\* Both loops' `!s?.enabled || !s.gpuVerified`.
GatedOff(s) == s.t = "null" \/ ~Truthy(s.enabled) \/ ~Truthy(s.gpuVerified)

\* What a loop has observed of a bind or state answer: the flag's value
\* ("absent" when the answer has none), or "null" for a null answer.
Observed(r, flag) == IF r.t = "obj" THEN r[flag] ELSE "null"

\* ---------------------------------------------------------- mining loop

\* The status of process.exit(1): of the wallet check and of start()'s catch.
ExitStatus(cause) == IF cause \in {"wallet", "fatal"} THEN 1 ELSE 0

\* Mutant of Startup: the wallet check is missing.
Startup_NoWalletCheck ==
    /\ mPc = "boot" /\ exited = "no"
    /\ mPc' = "hello" /\ mLog' = <<Ev("hello", 0)>>
    /\ aPc' = "state" /\ aLog' = <<Ev("state", 0)>>
    /\ UNCHANGED <<WALLET, exited, job, claimed, submitted, received,
                   lastEnabled, powVars, oldVars>>

\* The module's top level and start(): without WALLET the process exits with
\* status 1 before anything else runs; otherwise miningWorker() runs to its
\* first await (the hello call) and then aiWorker() to its first (the state
\* query).
Startup ==
    /\ mPc = "boot" /\ exited = "no"
    /\ IF WALLET = ""
       THEN /\ exited' = "wallet"
            /\ UNCHANGED <<mPc, mLog, aPc, aLog>>
       ELSE /\ mPc' = "hello" /\ mLog' = <<Ev("hello", 0)>>
            /\ aPc' = "state" /\ aLog' = <<Ev("state", 0)>>
            /\ UNCHANGED exited
    /\ UNCHANGED <<WALLET, job, claimed, submitted, received,
                   lastEnabled, powVars, oldVars>>

\* miningWorker after `await hello()`: a null answer makes `h.bound` throw,
\* which rejects miningWorker, Promise.all and start(), whose catch exits
\* with status 1; a falsy bound sleeps 2000 ms; otherwise the state query.
MHelloReturnStep(w) ==
    LET h == hello(w)
        ret == <<Last(mLog), Ev("helloRet", Observed(h, "bound"))>>
    IN IF h.t = "null"
       THEN /\ exited' = "fatal"
            /\ mLog' = ret
            /\ UNCHANGED mPc
       ELSE IF NotBound(h)
       THEN /\ mPc' = "sleep"
            /\ mLog' = ret \o <<Ev("sleep", BindRetryDelay)>>
            /\ UNCHANGED exited
       ELSE /\ mPc' = "state"
            /\ mLog' = ret \o <<Ev("state", 0)>>
            /\ UNCHANGED exited

MHelloReturn ==
    /\ mPc = "hello" /\ exited = "no"
    /\ \E w \in Wire(HelloBodies) : MHelloReturnStep(w)
    /\ UNCHANGED <<WALLET, aPc, aLog, job, claimed, submitted, received, lastEnabled, powVars, oldVars>>

\* Mutant of MStateReturnStep: gated off pauses only as long as between shares.
MStateReturnStep_ShortPause(w) ==
    LET s == hostState(w) IN
    /\ lastEnabled' = Observed(s, "enabled")
    /\ IF GatedOff(s)
       THEN /\ mPc' = "sleep"
            /\ mLog' = mLog \o <<Ev("stateRet", s), Ev("sleep", ShareDelay)>>
       ELSE /\ mPc' = "share"
            /\ mLog' = mLog \o <<Ev("stateRet", s), Ev("pow", MINING_DIFFICULTY),
                                 Ev("share", MINING_DIFFICULTY)>>

\* miningWorker after `await hostState()`: gated off sleeps 5000 ms;
\* otherwise minePoW(MINING_DIFFICULTY) runs to its end (synchronously, so
\* nothing else runs meanwhile) and share(MINING_DIFFICULTY) is issued.
MStateReturnStep(w) ==
    LET s == hostState(w) IN
    /\ lastEnabled' = Observed(s, "enabled")
    /\ IF GatedOff(s)
       THEN /\ mPc' = "sleep"
            /\ mLog' = mLog \o <<Ev("stateRet", s), Ev("sleep", GateRetryDelay)>>
       ELSE /\ mPc' = "share"
            /\ mLog' = mLog \o <<Ev("stateRet", s), Ev("pow", MINING_DIFFICULTY),
                                 Ev("share", MINING_DIFFICULTY)>>

MStateReturn ==
    /\ mPc = "state" /\ exited = "no"
    /\ \E w \in Wire(StateBodies) : MStateReturnStep(w)
    /\ UNCHANGED <<WALLET, exited, aPc, aLog, job, claimed, submitted,
                   received, powVars, oldVars>>

\* miningWorker after `await share(...)`: a null answer (2xx with body null)
\* makes `r.ok` throw, with the same exit as in MHelloReturn; accepted or
\* rejected, the loop logs and sleeps 50 ms.
MShareReturnStep(w) ==
    LET r == share(MINING_DIFFICULTY, w) IN
    IF r.t = "null"
    THEN /\ exited' = "fatal"
         /\ mLog' = mLog \o <<Ev("shareRet", r)>>
         /\ UNCHANGED mPc
    ELSE /\ mPc' = "sleep"
         /\ mLog' = mLog \o <<Ev("shareRet", r), Ev("sleep", ShareDelay)>>
         /\ UNCHANGED exited

MShareReturn ==
    /\ mPc = "share" /\ exited = "no"
    /\ \E w \in Wire(ShareBodies) : MShareReturnStep(w)
    /\ UNCHANGED <<WALLET, aPc, aLog, job, claimed, submitted, received, lastEnabled, powVars, oldVars>>

\* The delay ends: `continue` (or the loop's end) starts the next outer
\* iteration with a hello call.
MWake ==
    /\ mPc = "sleep" /\ exited = "no"
    /\ mPc' = "hello"
    /\ mLog' = mLog \o <<Ev("hello", 0)>>
    /\ UNCHANGED <<WALLET, exited, aPc, aLog, job, claimed, submitted, received, lastEnabled, powVars, oldVars>>

\* ------------------------------------------------------- inference loop

JobIds == 1..MaxJobs
\* Model identifiers of jobs; those of MistralIds contain "mistral" once lowercased.
MistralIds == {"Mistral-7B"}
ModelIds == MistralIds \cup {"llama-70b"}
Jobs == {[t |-> "obj", id |-> i, model_id |-> m] : i \in JobIds, m \in ModelIds}
NoJob == JsonNull

\* Bodies /ai/jobs/next can answer with (AiJobNextResp): job is a job, null
\* or missing.
NextBodies(jobs) ==
    {[t |-> "obj", ok |-> o, job |-> j] :
        o \in Tri, j \in jobs \cup {JsonNull, [t |-> "absent"]}}

\* Mutant of fetchNextAiJob: `if (!r.ok) return null` is missing.
fetchNextAiJob_IgnoresStatus(w) ==
    IF Throws(w) THEN JsonNull
    ELSE IF w.body.t = "null" THEN JsonNull
    ELSE IF w.body.job.t = "obj" THEN w.body.job
    ELSE JsonNull

\* fetchNextAiJob(): null on a transport error, on a non-2xx status (before
\* the body is read), on an unparseable body and on a null body (`j.job`
\* throws inside the try); else `j.job ?? null`.
fetchNextAiJob(w) ==
    IF w.status # "2xx" THEN JsonNull
    ELSE IF Throws(w) THEN JsonNull
    ELSE IF w.body.t = "null" THEN JsonNull
    ELSE IF w.body.job.t = "obj" THEN w.body.job
    ELSE JsonNull

\* The inference loop's `!job`.
IsNoJob(j) == j.t # "obj"

\* runOllamaInference's engineModel.
engineModel(modelId) == IF modelId \in MistralIds THEN "mistral" ELSE "llama3.1"

Undefined == "undefined"
Fallback == "Error generating response from GPU."
\* Messages of the error a failed fetch rejects with ("" : an error without one).
ErrMessages == {"", "fetch failed"}
\* Bodies /api/generate can answer with: response is a text or missing.
Texts == {"", "generated text"}
GenBodies == {[t |-> "obj", response |-> r] : r \in Texts \cup {"absent"}}

\* runOllamaInference(): throws when fetch throws (with fetch's message), on
\* a non-2xx status, on an unparseable body and on a null body
\* (`data.response`); else returns data.response, undefined when missing.
runOllamaInference(w, msg) ==
    IF w.status = "neterr" THEN [thrown |-> TRUE, message |-> msg]
    ELSE IF w.status # "2xx" THEN [thrown |-> TRUE, message |-> "Ollama API error"]
    ELSE IF w.body.t = "garbage" THEN [thrown |-> TRUE, message |-> "Unexpected token"]
    ELSE IF w.body.t = "null"
         THEN [thrown |-> TRUE, message |-> "Cannot read properties of null"]
    ELSE [thrown |-> FALSE,
          value |-> IF w.body.response = "absent" THEN Undefined ELSE w.body.response]

\* Mutant of TryInference: the catch takes err.message as it is.
TryInference_NoMessageFallback(out) ==
    IF out.thrown
    THEN [result |-> Fallback, error |-> out.message]
    ELSE IF out.value = Undefined
    THEN [result |-> Fallback, error |-> "Cannot read properties of undefined"]
    ELSE [result |-> out.value, error |-> Undefined]

\* aiWorker's inner try/catch around the backend call: `result.length` of
\* the log line throws when the call returned undefined; the catch sets
\* error to `err.message || 'GPU_INFERENCE_FAILED'` and result to the
\* fallback text.
TryInference(out) ==
    IF out.thrown
    THEN [result |-> Fallback,
          error |-> IF out.message # "" THEN out.message ELSE "GPU_INFERENCE_FAILED"]
    ELSE IF out.value = Undefined
    THEN [result |-> Fallback, error |-> "Cannot read properties of undefined"]
    ELSE [result |-> out.value, error |-> Undefined]

\* The request submitAiJobResult sends: { result, error: error || null }.
ResultRequest(jobId, result, error) ==
    [jobId |-> jobId, result |-> result,
     error |-> IF error # Undefined /\ error # "" THEN error ELSE "null"]

\* A new iteration of aiWorker: the state query.
AIterate(done) ==
    /\ aPc' = "state"
    /\ aLog' = done \o <<Ev("state", 0)>>

\* aiWorker after `await hostState()`: gated off sleeps 5000 ms; otherwise
\* claim-next-job is issued.
AStateReturnStep(w) ==
    LET s == hostState(w) IN
    /\ lastEnabled' = Observed(s, "enabled")
    /\ IF GatedOff(s)
       THEN /\ aPc' = "sleep"
            /\ aLog' = <<Last(aLog), Ev("stateRet", s), Ev("sleep", GateRetryDelay)>>
       ELSE /\ aPc' = "claim"
            /\ aLog' = <<Last(aLog), Ev("stateRet", s), Ev("claim", 0)>>

AStateReturn ==
    /\ aPc = "state" /\ exited = "no"
    /\ \E w \in Wire(StateBodies) : AStateReturnStep(w)
    /\ UNCHANGED <<WALLET, exited, mPc, mLog, job, claimed, submitted,
                   received, powVars, oldVars>>

\* aiWorker after `await fetchNextAiJob()`: no job sleeps 2000 ms; a job is
\* handed to runOllamaInference, which issues the generate call.
AClaimReturnStep(w) ==
    LET j == fetchNextAiJob(w) IN
    IF IsNoJob(j)
    THEN /\ aPc' = "sleep"
         /\ aLog' = aLog \o <<Ev("claimRet", [status |-> w.status, job |-> j]),
                               Ev("sleep", NoJobDelay)>>
         /\ UNCHANGED <<job, claimed>>
    ELSE /\ aPc' = "generate"
         /\ job' = j
         /\ claimed' = Append(claimed, j.id)
         /\ aLog' = aLog \o <<Ev("claimRet", [status |-> w.status, job |-> j]),
                               Ev("generate", engineModel(j.model_id))>>

AClaimReturn ==
    /\ aPc = "claim" /\ exited = "no"
    /\ \E w \in Wire(NextBodies(IF Len(claimed) < MaxJobs THEN Jobs ELSE {})) :
           AClaimReturnStep(w)
    /\ UNCHANGED <<WALLET, exited, mPc, mLog, submitted, received,
                   lastEnabled, powVars, oldVars>>

\* Mutant of AGenerateReturnStep: without the inner try/catch a failed
\* backend call reaches the loop's outer catch, which sleeps 5000 ms.
AGenerateReturnStep_NoInnerTry(w, msg) ==
    LET out == runOllamaInference(w, msg)
        req == ResultRequest(job.id, out.value, Undefined)
    IN IF out.thrown \/ out.value = Undefined
       THEN /\ aPc' = "sleep"
            /\ aLog' = aLog \o <<Ev("generateRet", out), Ev("catch", 0),
                                  Ev("sleep", GateRetryDelay)>>
            /\ UNCHANGED submitted
       ELSE /\ aPc' = "result"
            /\ submitted' = Append(submitted, req.jobId)
            /\ aLog' = aLog \o <<Ev("generateRet", out), Ev("result", req)>>

\* Mutant of AGenerateReturnStep: the catch goes on to the next iteration
\* (`continue`) with the job unanswered.
AGenerateReturnStep_ContinueOnError(w, msg) ==
    LET out == runOllamaInference(w, msg)
        r == TryInference(out)
        req == ResultRequest(job.id, r.result, r.error)
    IN IF out.thrown \/ out.value = Undefined
       THEN /\ AIterate(aLog \o <<Ev("generateRet", out)>>)
            /\ UNCHANGED submitted
       ELSE /\ aPc' = "result"
            /\ submitted' = Append(submitted, req.jobId)
            /\ aLog' = aLog \o <<Ev("generateRet", out), Ev("result", req)>>

\* aiWorker after the generate call: the inner try/catch settles result and
\* error, and submitAiJobResult issues the request for job.id.
AGenerateReturnStep(w, msg) ==
    LET out == runOllamaInference(w, msg)
        r == TryInference(out)
        req == ResultRequest(job.id, r.result, r.error)
    IN /\ aPc' = "result"
       /\ submitted' = Append(submitted, req.jobId)
       /\ aLog' = aLog \o <<Ev("generateRet", out), Ev("result", req)>>

AGenerateReturn ==
    /\ aPc = "generate" /\ exited = "no"
    /\ \E w \in Wire(GenBodies), msg \in ErrMessages : AGenerateReturnStep(w, msg)
    /\ UNCHANGED <<WALLET, exited, mPc, mLog, job, claimed, received, lastEnabled,
                   powVars, oldVars>>

\* submitAiJobResult after its fetch: a transport error is logged and
\* swallowed, the status is not looked at; aiWorker logs and goes on to its
\* next iteration without a delay.  The request reached the coordinator when
\* an answer came back; on a transport error it may or may not have.
AResultReturnStep(w, delivered) ==
    /\ received' = IF delivered THEN received \cup {Len(claimed)} ELSE received
    /\ job' = NoJob
    /\ AIterate(aLog \o <<Ev("resultRet", w.status)>>)

AResultReturn ==
    /\ aPc = "result" /\ exited = "no"
    /\ \E w \in Wire({[t |-> "obj"]}), delivered \in BOOLEAN :
           /\ w.status # "neterr" => delivered
           /\ AResultReturnStep(w, delivered)
    /\ UNCHANGED <<WALLET, exited, mPc, mLog, claimed, submitted, lastEnabled,
                   powVars, oldVars>>

\* The delay ends: `continue` starts the next iteration.
AWake ==
    /\ aPc = "sleep" /\ exited = "no"
    /\ AIterate(aLog)
    /\ UNCHANGED <<WALLET, exited, mPc, mLog, job, claimed, submitted, received, lastEnabled, powVars, oldVars>>

\* ---------------------------------------------------------- the agent

\* The agent's latest observed bind result: only the mining loop binds, and
\* its log keeps the last answer ("none" before the first).
lastBound ==
    IF \E i \in 1..Len(mLog) : mLog[i].op = "helloRet"
    THEN mLog[CHOOSE i \in 1..Len(mLog) : mLog[i].op = "helloRet"].val
    ELSE "none"

\* The earlier revision's mining loop is not running.
OldIdle ==
    /\ oldPc = "off" /\ oldDiff = 0 /\ oldDelay = 0
    /\ coordEnabled = FALSE /\ coordVerified = FALSE
    /\ pastIssued = 0 /\ pastAccepted = FALSE

Init ==
    /\ WALLET \in {"", "wallet-1"}
    /\ exited = "no"
    /\ mPc = "boot" /\ mLog = <<>>
    /\ aPc = "boot" /\ aLog = <<>>
    /\ job = NoJob
    /\ claimed = <<>> /\ submitted = <<>> /\ received = {}
    /\ lastEnabled = "none"
    /\ powDiff = MINING_DIFFICULTY /\ powNonce = 0 /\ powLast = <<>> /\ powPc = "idle"
    /\ powTried = <<>>
    /\ OldIdle

Next ==
    \/ Startup
    \/ MHelloReturn \/ MStateReturn \/ MShareReturn \/ MWake
    \/ AStateReturn \/ AClaimReturn \/ AGenerateReturn \/ AResultReturn \/ AWake

Spec == Init /\ [][Next]_vars

\* Fair scheduling: startup runs, every pending call of either loop returns
\* and every delay ends.
MiningStep == MHelloReturn \/ MStateReturn \/ MShareReturn \/ MWake
InferenceStep ==
    AStateReturn \/ AClaimReturn \/ AGenerateReturn \/ AResultReturn \/ AWake
FairSpec ==
    Spec /\ WF_vars(Startup) /\ WF_vars(MiningStep) /\ WF_vars(InferenceStep)

\* ------------------------------------------------------------- minePoW

\* A difficulty is the rational num/den; a digest is its first HashLen hex
\* characters, each its numeric value.  SHA-256 is not computed: the digest
\* of each nonce is any digest.
\* A Number is an IEEE-754 double: a significand of Mantissa binary digits.
Mantissa == 53
\* The difficulties 2^-k about the point where 1 - 2^-k stops being a double
\* of its own, written [num |-> 1, den |-> 1, exp |-> k]: a difficulty with
\* an exp field is num / (den * 2^exp).
TinyExps == (Mantissa - 1)..(Mantissa + 2)
TinyDifficulties == {[num |-> 1, den |-> 1, exp |-> k] : k \in TinyExps}
fracExp(d) == IF "exp" \in DOMAIN d THEN d.exp ELSE 0

Difficulties ==
    UNION {{[num |-> n, den |-> d] : n \in 0..((HashLen + 1) * d - 1)} : d \in 1..MaxDen}
    \cup TinyDifficulties
Hashes == [1..HashLen -> 0..(HexBase - 1)]

\* intDiff = Math.floor(difficulty).
intDiff(d) == IF fracExp(d) = 0 THEN d.num \div d.den ELSE 0
\* fracDiff = difficulty - intDiff, as the numerator of fracDiff over
\* d.den * 2^exp (the subtraction is exact in doubles).
fracNum(d) == IF fracExp(d) = 0 THEN d.num % d.den ELSE d.num
\* Mutant of maxNextCharVal: Math.round in place of Math.floor.
maxNextCharVal_Round(d) ==
    IF fracExp(d) = 0
    THEN (2 * HexBase * (d.den - fracNum(d)) + d.den) \div (2 * d.den)
    ELSE HexBase

\* Mutant of maxNextCharVal: 16 * fracDiff in place of 16 * (1 - fracDiff).
maxNextCharVal_Inverted(d) ==
    IF fracExp(d) = 0 THEN (HexBase * fracNum(d)) \div d.den ELSE 0

\* maxNextCharVal = Math.floor(16 * (1 - fracDiff)).  The difference
\* 1 - 2^-k has k significant binary digits: it is a double for
\* k <= Mantissa, and 16 times it is in [15, 16); past that `1 - fracDiff`
\* rounds to the nearest double, which is 1 (at k = Mantissa + 1 the tie goes
\* to the even significand, 1 again), and the product is 16.
maxNextCharVal(d) ==
    IF fracExp(d) = 0 THEN (HexBase * (d.den - fracNum(d))) \div d.den
    ELSE IF fracExp(d) > Mantissa THEN HexBase
    ELSE HexBase - 1
\* hash.startsWith('0'.repeat(intDiff)).
startsWithPrefix(hash, d) ==
    /\ intDiff(d) <= Len(hash)
    /\ \A i \in 1..intDiff(d) : hash[i] = 0
\* parseInt(hash[intDiff], 16) <= maxNextCharVal; past the end of the digest
\* hash[intDiff] is undefined, parseInt gives NaN and the comparison is false.
nextCharOk(hash, d) ==
    /\ intDiff(d) < Len(hash)
    /\ hash[intDiff(d) + 1] <= maxNextCharVal(d)
\* The test minePoW puts each digest to.
Accepts(hash, d) ==
    /\ startsWithPrefix(hash, d)
    /\ fracNum(d) > 0 => nextCharOk(hash, d)

\* The body of minePoW's while loop: the digest of the nonce is tested and
\* the search returns { nonce, hash } when it is accepted.
MineTry ==
    /\ powPc = "search"
    /\ \E h \in Hashes :
          /\ powLast' = h
          /\ powPc' = IF Accepts(h, powDiff) THEN "done" ELSE "rejected"
          /\ powTried' = Append(powTried, [nonce |-> powNonce,
                                            ok |-> Accepts(h, powDiff)])
    /\ UNCHANGED <<powDiff, powNonce, agentVars, oldVars>>

\* Mutant of NextNonce: the search steps over every other nonce.
NextNonce_SkipsOne(nonce) == nonce + 2

\* `nonce++`.
NextNonce(nonce) == nonce + 1

\* `nonce++` after a digest that was not accepted.
MineNext ==
    /\ powPc = "rejected"
    /\ powNonce < MaxNonce
    /\ powNonce' = NextNonce(powNonce)
    /\ powLast' = <<>>
    /\ powPc' = "search"
    /\ UNCHANGED <<powDiff, powTried, agentVars, oldVars>>

\* A call of minePoW at any difficulty, the agent not started.
PoWInit ==
    /\ WALLET = "wallet-1"
    /\ exited = "no"
    /\ mPc = "boot" /\ mLog = <<>>
    /\ aPc = "boot" /\ aLog = <<>>
    /\ job = NoJob
    /\ claimed = <<>> /\ submitted = <<>> /\ received = {}
    /\ lastEnabled = "none"
    /\ powDiff \in Difficulties /\ powNonce = 0 /\ powLast = <<>> /\ powPc = "search"
    /\ powTried = <<>>
    /\ OldIdle

PoWNext == MineTry \/ MineNext

PoWSpec == PoWInit /\ [][PoWNext]_vars
\* ------------------------------------- miningWorker, earlier revision

\* The coordinator's flags let this host work.
Authorized == coordEnabled /\ coordVerified

\* What /host-state answers when the request gets through: the flags as
\* the coordinator holds them.
FlagBody ==
    [t |-> "obj",
     enabled |-> IF coordEnabled THEN "true" ELSE "false",
     gpuVerified |-> IF coordVerified THEN "true" ELSE "false"]

\* `diff = Math.floor(Math.random() * 4) + 1`.
OldDiffs == 1..DemoDiffs

\* `await share(diff)` of the share loop, counted when a flag is false.
OldIssueShare(past) ==
    /\ ~Authorized => past < MaxPast
    /\ \E diff \in OldDiffs : oldDiff' = diff
    /\ oldPc' = "share"
    /\ pastIssued' = IF Authorized THEN past ELSE past + 1

\* The top of one pass of the share loop: `randomGate` fires and the state
\* is queried again, or the next share is issued at once.
OldBurstPass(past) ==
    \E randomGate \in BOOLEAN :
        IF randomGate
        THEN /\ oldPc' = "recheck"
             /\ pastIssued' = past
             /\ UNCHANGED oldDiff
        ELSE OldIssueShare(past)

\* `await delay(ms); continue` of the outer loop.
OldSleep(ms) ==
    /\ oldPc' = "sleep" /\ oldDelay' = ms
    /\ UNCHANGED <<oldDiff, pastIssued, pastAccepted>>

\* `break`: the outer loop starts over with hello(), no delay between.
OldBreak ==
    /\ oldPc' = "hello"
    /\ UNCHANGED <<oldDiff, oldDelay, pastIssued, pastAccepted>>

\* An uncaught TypeError in miningWorker: start()'s catch ends the process.
OldCrash ==
    /\ oldPc' = "crashed"
    /\ UNCHANGED <<oldDiff, oldDelay, pastIssued, pastAccepted>>

\* hello() returns: `!h.ok` and `!h.bound` each wait and start over,
\* otherwise the state is queried.
OldHelloReturnStep(w) ==
    LET h == hello(w) IN
    IF h.t = "null" THEN OldCrash
    ELSE IF ~Truthy(h.ok) \/ ~Truthy(h.bound) THEN OldSleep(OldBindRetryDelay)
    ELSE /\ oldPc' = "state"
         /\ UNCHANGED <<oldDiff, oldDelay, pastIssued, pastAccepted>>

OldHelloReturn ==
    /\ oldPc = "hello"
    /\ \E w \in Wire(HelloBodies) : OldHelloReturnStep(w)
    /\ UNCHANGED <<coordEnabled, coordVerified, agentVars, powVars>>

\* hostState() returns to the outer loop: disabled and unverified each wait
\* and start over, otherwise the share loop is entered.
OldStateReturnStep(w) ==
    LET s == hostState(w) IN
    IF s.t = "null" \/ ~Truthy(s.enabled) THEN OldSleep(OldDisabledDelay)
    ELSE IF ~Truthy(s.gpuVerified) THEN OldSleep(OldUnverifiedDelay)
    ELSE /\ OldBurstPass(0)
         /\ pastAccepted' = FALSE
         /\ UNCHANGED oldDelay

OldStateReturn ==
    /\ oldPc = "state"
    /\ \E w \in Wire({FlagBody}) : OldStateReturnStep(w)
    /\ UNCHANGED <<coordEnabled, coordVerified, agentVars, powVars>>

\* hostState() returns to the share loop's re-check: gated off leaves the
\* share loop, otherwise the next share is issued.
OldRecheckReturnStep(w) ==
    LET now == hostState(w) IN
    IF GatedOff(now) THEN OldBreak
    ELSE /\ OldIssueShare(pastIssued)
         /\ UNCHANGED <<oldDelay, pastAccepted>>

OldRecheckReturn ==
    /\ oldPc = "recheck"
    /\ \E w \in Wire({FlagBody}) : OldRecheckReturnStep(w)
    /\ UNCHANGED <<coordEnabled, coordVerified, agentVars, powVars>>

\* Mutant of OldShareReturnStep: a share answered without ok does not leave
\* the share loop.
OldShareReturnStep_NoBreak(w) ==
    LET r == share(oldDiff, w) IN
    IF r.t = "null" THEN OldCrash
    ELSE /\ oldPc' = "pause" /\ oldDelay' = OldShareDelay
         /\ pastAccepted' = (pastAccepted \/ (pastIssued > 0 /\ Truthy(r.ok)))
         /\ UNCHANGED <<oldDiff, pastIssued>>

\* share(diff) returns: `!r.ok` leaves the share loop, otherwise the loop
\* waits before its next pass.
OldShareReturnStep(w) ==
    LET r == share(oldDiff, w) IN
    IF r.t = "null" THEN OldCrash
    ELSE IF ~Truthy(r.ok) THEN OldBreak
    ELSE /\ oldPc' = "pause" /\ oldDelay' = OldShareDelay
         /\ pastAccepted' = (pastAccepted \/ pastIssued > 0)
         /\ UNCHANGED <<oldDiff, pastIssued>>

OldShareReturn ==
    /\ oldPc = "share"
    /\ \E w \in Wire(ShareBodies) : OldShareReturnStep(w)
    /\ UNCHANGED <<coordEnabled, coordVerified, agentVars, powVars>>

\* `delay(750)` ends: the next pass of the share loop.
OldPauseEnd ==
    /\ oldPc = "pause"
    /\ OldBurstPass(pastIssued)
    /\ oldDelay' = 0
    /\ UNCHANGED <<pastAccepted, coordEnabled, coordVerified, agentVars, powVars>>

\* A delay of the outer loop ends: hello() is called again.
OldWake ==
    /\ oldPc = "sleep"
    /\ oldPc' = "hello" /\ oldDelay' = 0
    /\ UNCHANGED <<oldDiff, pastIssued, pastAccepted, coordEnabled,
                   coordVerified, agentVars, powVars>>

\* The coordinator turns one of the host's flags off.
CoordRevoke ==
    /\ oldPc # "off"
    /\ \/ coordEnabled /\ coordEnabled' = FALSE /\ UNCHANGED coordVerified
       \/ coordVerified /\ coordVerified' = FALSE /\ UNCHANGED coordEnabled
    /\ UNCHANGED <<oldPc, oldDiff, oldDelay, pastIssued, pastAccepted,
                   agentVars, powVars>>

\* The coordinator turns one of the host's flags on; once both are on no
\* share issued from then on is past a de-authorization.
CoordGrant ==
    /\ oldPc # "off"
    /\ \/ ~coordEnabled /\ coordEnabled' = TRUE /\ UNCHANGED coordVerified
       \/ ~coordVerified /\ coordVerified' = TRUE /\ UNCHANGED coordEnabled
    /\ IF coordEnabled' /\ coordVerified'
       THEN pastIssued' = 0 /\ pastAccepted' = FALSE
       ELSE UNCHANGED <<pastIssued, pastAccepted>>
    /\ UNCHANGED <<oldPc, oldDiff, oldDelay, agentVars, powVars>>

\* miningWorker of the earlier revision has just called hello(); the
\* coordinator's flags are any.
OldInit ==
    /\ WALLET = "wallet-1"
    /\ exited = "no"
    /\ mPc = "boot" /\ mLog = <<>>
    /\ aPc = "boot" /\ aLog = <<>>
    /\ job = NoJob
    /\ claimed = <<>> /\ submitted = <<>> /\ received = {}
    /\ lastEnabled = "none"
    /\ powDiff = MINING_DIFFICULTY /\ powNonce = 0 /\ powLast = <<>> /\ powPc = "idle"
    /\ powTried = <<>>
    /\ oldPc = "hello" /\ oldDiff = 0 /\ oldDelay = 0
    /\ coordEnabled \in BOOLEAN /\ coordVerified \in BOOLEAN
    /\ pastIssued = 0 /\ pastAccepted = FALSE

OldNext ==
    \/ OldHelloReturn \/ OldStateReturn \/ OldRecheckReturn \/ OldShareReturn
    \/ OldPauseEnd \/ OldWake
    \/ CoordRevoke \/ CoordGrant

OldSpec == OldInit /\ [][OldNext]_vars

\* ------------------------------------------------------------- claims

\* C1: no share submission and no job claim is issued while the agent's
\* latest observed bind result is bound=false or its latest observed state
\* query is enabled=false.
C1_NoWorkWhileUnboundOrDisabled ==
    [][((mPc' = "share" /\ mPc # "share") \/ (aPc' = "claim" /\ aPc # "claim"))
          => (lastBound' # "false" /\ lastEnabled' # "false")]_vars

\* C2: every job claim-next-job returned is followed by exactly one
\* submit-job-result for its id before the next claim: the requests issued
\* are the jobs claimed, in order, but for the job whose backend call is
\* still pending.
C2_ExactlyOneSubmissionPerClaim ==
    IF aPc = "generate"
    THEN /\ Len(claimed) > 0
         /\ submitted = SubSeq(claimed, 1, Len(claimed) - 1)
    ELSE submitted = claimed

C2_Witness ==
    /\ Len(claimed) = 2 /\ submitted = claimed /\ aPc = "state"
    /\ \E i \in 1..Len(aLog) : aLog[i].op = "generateRet" /\ aLog[i].val.thrown

C4_HalfAcceptsZeroToSeven ==
    LET n == powDiff.num \div powDiff.den IN
    (/\ powPc \in {"done", "rejected"}
     /\ powDiff \notin TinyDifficulties
     /\ 2 * (powDiff.num % powDiff.den) = powDiff.den
     /\ n < Len(powLast)
     /\ \A i \in 1..n : powLast[i] = 0)
    => (powPc = "done" <=> powLast[n + 1] \in 0..7)

\* C5: an outer iteration of the mining loop whose bind call failed or
\* answered without bound=true issues no state query, runs no PoW search
\* and submits no share, and sleeps before the next bind call.
C5_NegativeBindOnlySleeps ==
    (\E i \in 1..Len(mLog) : mLog[i].op = "helloRet" /\ mLog[i].val # "true")
    => Ops(mLog) \in {<<"hello", "helloRet">>,
                      <<"hello", "helloRet", "sleep">>,
                      <<"hello", "helloRet", "sleep", "hello">>}

C5_Witness ==
    /\ Ops(mLog) = <<"hello", "helloRet", "sleep", "hello">>
    /\ mLog[2].val = "false"

\* C6: an iteration of the inference loop whose claim yielded no job (job
\* null, a non-2xx answer or a transport failure) calls neither the backend
\* nor submit-job-result, does not enter the error branch, sleeps, and is
\* followed by a new iteration's state query.
C6_NoJobSleepsAndRetries ==
    (\E i \in 1..Len(aLog) :
        /\ aLog[i].op = "claimRet"
        /\ (aLog[i].val.status # "2xx" \/ aLog[i].val.job.t # "obj"))
    => Ops(aLog) \in {<<"state", "stateRet", "claim", "claimRet", "sleep">>,
                      <<"state", "stateRet", "claim", "claimRet", "sleep", "state">>}

C6_Witness ==
    /\ Ops(aLog) = <<"state", "stateRet", "claim", "claimRet", "sleep", "state">>
    /\ aLog[4].val.status = "non2xx"

\* C7: the submit-job-result request after a backend call that threw or
\* gave no text carries a non-empty error and the fallback result; after a
\* backend call that returned text it carries that text and a null error.
C7_ResultReflectsBackendOutcome ==
    \A i \in 1..Len(aLog) :
        aLog[i].op = "result" =>
            LET out == aLog[i - 1].val
                req == aLog[i].val
            IN /\ aLog[i - 1].op = "generateRet"
               /\ IF out.thrown \/ out.value = Undefined
                  THEN /\ req.error \notin {"", "null", Undefined}
                       /\ req.result = Fallback
                  ELSE /\ req.result = out.value
                       /\ req.error = "null"

C7_Witness ==
    \E i \in 1..Len(aLog) :
        /\ aLog[i].op = "result"
        /\ aLog[i - 1].val.thrown
        /\ aLog[i - 1].val.message = ""
        /\ aLog[i].val.error = "GPU_INFERENCE_FAILED"

\* C8: past the wallet check no answer to a remote call ends the process:
\* the only exit is the missing-credential exit.
C8_OnlyWalletExit == exited # "no" => (exited = "wallet" /\ WALLET = "")

\* C9: the coordinator receives a terminal status for every claimed job.
\* The loop submits once per job (C2) and never again, so the status of a
\* job the loop has left behind must have arrived.
C9_EveryClaimedJobReceived ==
    \A k \in 1..Len(claimed) :
        (k < Len(claimed) \/ aPc \notin {"generate", "result"}) => k \in received

\* C10: without the wallet credential the process exits with a non-zero
\* status before any remote call is issued and before either loop starts.
C10_NoWalletExitsBeforeAnyCall ==
    WALLET = "" =>
        /\ mPc = "boot" /\ aPc = "boot"
        /\ mLog = <<>> /\ aLog = <<>>
        /\ exited \in {"no", "wallet"}
        /\ exited = "wallet" => ExitStatus(exited) # 0
        /\ ~ENABLED Startup => exited = "wallet"

C10_Witness == exited = "wallet" /\ WALLET = "" /\ mLog = <<>> /\ aLog = <<>>

\* C11: a submit-share call follows, in its own outer iteration and in this
\* order, a bind answered bound=true, a state query answered enabled=true
\* and gpuVerified=true, and one completed PoW search; the share carries the
\* difficulty of that search.  The log starts at the iteration's bind call,
\* so nothing observed earlier is used.
C11_ShareFollowsBindGateAndPoW ==
    (\E i \in 1..Len(mLog) : mLog[i].op = "share") =>
        /\ Len(mLog) >= 6
        /\ SubSeq(Ops(mLog), 1, 6) =
               <<"hello", "helloRet", "state", "stateRet", "pow", "share">>
        /\ mLog[2].val = "true"
        /\ mLog[4].val.t = "obj"
        /\ mLog[4].val.enabled = "true" /\ mLog[4].val.gpuVerified = "true"
        /\ mLog[5].val = mLog[6].val
        /\ \A i \in 7..Len(mLog) : mLog[i].op \notin {"pow", "share", "helloRet", "stateRet"}

C11_Witness ==
    /\ Ops(mLog) = <<"hello", "helloRet", "state", "stateRet", "pow", "share",
                     "shareRet", "sleep", "hello">>
    /\ mLog[6].val = [num |-> 11, den |-> 2]

\* C12: a claim-next-job call directly follows, in its own iteration, a
\* state query answered enabled=true and gpuVerified=true; after a state
\* query that failed or answered otherwise the loop only sleeps and queries
\* the state again.
C12_ClaimFollowsAuthorizingStateQuery ==
    LET authorizes(s) ==
            s.t = "obj" /\ s.enabled = "true" /\ s.gpuVerified = "true"
    IN /\ (\E i \in 1..Len(aLog) : aLog[i].op = "claim") =>
            /\ Len(aLog) >= 3
            /\ SubSeq(Ops(aLog), 1, 3) = <<"state", "stateRet", "claim">>
            /\ authorizes(aLog[2].val)
       /\ (\E i \in 1..Len(aLog) :
               aLog[i].op = "stateRet" /\ ~authorizes(aLog[i].val)) =>
            Ops(aLog) \in {<<"state", "stateRet", "sleep">>,
                           <<"state", "stateRet", "sleep", "state">>}

C12_Witness ==
    /\ Ops(aLog) = <<"state", "stateRet", "claim">>
    /\ Len(claimed) = 1 /\ submitted = claimed

\* C14: the inference loop holds at most one claimed job: a claim is issued
\* only when no job is held and every claimed job has had its submission,
\* and a held job sees no further claim before its submission.
C14_AtMostOneJobHeld ==
    /\ Len(claimed) <= Len(submitted) + 1
    /\ aPc = "claim" => (job = NoJob /\ Len(submitted) = Len(claimed))
    /\ job # NoJob =>
          /\ aPc \in {"generate", "result"}
          /\ Cardinality({i \in 1..Len(aLog) : aLog[i].op = "claim"}) = 1

C14_Witness == job # NoJob /\ aPc = "result" /\ Len(claimed) = 2

\* C15: when the mining loop issues its next bind call, the iteration before
\* it has ended with exactly one sleep: 2000 ms after a negative bind,
\* 5000 ms after a state query that did not authorize, 50 ms after a share
\* attempt; both gated-off sleeps are longer than the one between shares.
C15_OneSleepPerIteration ==
    /\ BindRetryDelay > ShareDelay /\ GateRetryDelay > ShareDelay
    /\ (Len(mLog) > 1 /\ Last(mLog).op = "hello") =>
          LET n == Len(mLog) IN
          /\ {i \in 1..n : mLog[i].op = "sleep"} = {n - 1}
          /\ mLog[n - 1].val =
                IF \E i \in 1..n : mLog[i].op = "shareRet" THEN 50
                ELSE IF \E i \in 1..n : mLog[i].op = "stateRet" THEN 5000
                ELSE 2000

C15_Witness ==
    /\ Ops(mLog) = <<"hello", "helloRet", "state", "stateRet", "sleep", "hello">>
    /\ mLog[5].val = 5000

\* C13: a job the inference loop has claimed gets its submit-job-result
\* request, whatever the coordinator's flags become after the claim.
C13_ClaimedJobIsSubmitted ==
    \A k \in 1..MaxJobs : (Len(claimed) >= k) ~> (Len(submitted) >= k)

\* C18: the gate machine has no terminal state: once started, the mining
\* loop issues a bind call and the inference loop a state query again and
\* again.
C18_LoopsRunForever ==
    (WALLET # "") => /\ []<><<MWake>>_vars
                     /\ []<><<AWake \/ AResultReturn>>_vars

\* C17: minePoW tests the nonces 0, 1, 2, ... in increasing order and
\* returns at the first one whose digest the acceptance test passes: every
\* smaller nonce was tested and rejected, so the result is fixed by the
\* digests of the seed prefix and by the difficulty alone.
C17_ReturnsSmallestAcceptedNonce ==
    /\ \A i \in 1..Len(powTried) : powTried[i].nonce = i - 1
    /\ \A i \in 1..(Len(powTried) - 1) : ~powTried[i].ok
    /\ powPc = "search" => Len(powTried) = powNonce
    /\ powPc = "rejected" => Len(powTried) = powNonce + 1 /\ ~Last(powTried).ok
    /\ powPc = "done" =>
          /\ Len(powTried) = powNonce + 1
          /\ Last(powTried) = [nonce |-> powNonce, ok |-> TRUE]
          /\ Accepts(powLast, powDiff)

C17_Witness ==
    /\ powPc = "done" /\ powNonce = 1
    /\ powTried = <<[nonce |-> 0, ok |-> FALSE], [nonce |-> 1, ok |-> TRUE]>>

C16_AtMostOneSharePastDeauthorization == pastIssued <= 1

\* C16 amended: a second share past de-authorization is issued only after
\* the coordinator answered an earlier one with ok true; while it answers
\* them without ok, the first such share ends the burst.
C16_SecondShareOnlyAfterAcceptedOne == pastIssued >= 2 => pastAccepted

C16_Witness ==
    /\ pastIssued = 1 /\ ~pastAccepted /\ ~Authorized
    /\ oldPc = "hello" /\ oldDiff > 0
====
